---- MODULE Spec2Model ----
(***************************************************************************)
(* ComplianceManager: the folder scanner (enhanced_scanner.py) and the     *)
(* scan reconciler, upload and manual reassignment handlers (backend.py),  *)
(* over the SQLite store created by init_database and migrate_db.          *)
(*                                                                         *)
(* The server is started by uvicorn.run(app) (backend.py:694): one process *)
(* with one asyncio event loop.  Every handler is an `async def`.  A       *)
(* coroutine gives the loop up only where it awaits; the variable `loop`   *)
(* names the perform_scan task that holds the loop (0 when it is free).    *)
(* The store is the committed database `db`; a connection's uncommitted    *)
(* writes live in the task's `tx` until conn.commit().                     *)
(***************************************************************************)
EXTENDS Integers, Sequences, FiniteSets, TLC

(* ------------------------------ bounds -------------------------------- *)
\* The operations of one behaviour: accepted scan requests, stored uploads,
\* written reassignments and changes of the scanned tree, taken together.
MaxOps == 3
\* The longest string (file name stem, clause number) and the longest
\* keyword list that the scanner's functions are called on by themselves.
MaxLen == 2
\* The rows of the clauses table while the catalogue is built.
MaxClauses == 3
\* The pieces (words with their punctuation) of a text whose keywords are
\* extracted.
MaxWords == 3

(* ------------------------ strings and text ---------------------------- *)
\* A string is a tuple of one-character strings; a text is a tuple of its
\* whitespace-separated lower-case alphanumeric words.

Lower(ch) ==
    CASE ch = "R" -> "r"
      [] ch = "P" -> "p"
      [] OTHER -> ch

lower(s) == [i \in 1..Len(s) |-> Lower(s[i])]

RECURSIVE replace(_, _)
\* str.replace(ch, ''): s without the character ch
replace(s, ch) ==
    IF s = <<>> THEN <<>>
    ELSE IF Head(s) = ch THEN replace(Tail(s), ch)
         ELSE <<Head(s)>> \o replace(Tail(s), ch)

\* Python's `a in b` for strings
Contains(b, a) ==
    \E i \in 0..(Len(b) - Len(a)) : SubSeq(b, i + 1, i + Len(a)) = a

(* ---------------- EnhancedDocumentScanner: the scorer ----------------- *)
\* common substrings of a and b as <<i, j, k>>: a[i..i+k-1] = b[j..j+k-1]
CommonBlocks(a, b) ==
    {m \in (1..Len(a)) \X (1..Len(b)) \X (1..Len(a)) :
        /\ m[1] + m[3] - 1 <= Len(a)
        /\ m[2] + m[3] - 1 <= Len(b)
        /\ SubSeq(a, m[1], m[1] + m[3] - 1) = SubSeq(b, m[2], m[2] + m[3] - 1)}

\* SequenceMatcher.find_longest_match: the longest block, the leftmost in a
\* among the longest, the leftmost in b among those
LongestMatch(a, b) ==
    CHOOSE m \in CommonBlocks(a, b) :
        \A o \in CommonBlocks(a, b) :
            \/ m[3] > o[3]
            \/ m[3] = o[3] /\ m[1] < o[1]
            \/ m[3] = o[3] /\ m[1] = o[1] /\ m[2] <= o[2]

RECURSIVE MatchedLength(_, _)
\* SequenceMatcher.get_matching_blocks, summed: the longest block, then the
\* same to the left and to the right of it
MatchedLength(a, b) ==
    IF CommonBlocks(a, b) = {} THEN 0
    ELSE LET m == LongestMatch(a, b)
         IN  m[3]
             + MatchedLength(SubSeq(a, 1, m[1] - 1), SubSeq(b, 1, m[2] - 1))
             + MatchedLength(SubSeq(a, m[1] + m[3], Len(a)),
                             SubSeq(b, m[2] + m[3], Len(b)))

\* A score is the exact fraction <<numerator, denominator>>, denominator > 0.
\* SequenceMatcher(None, a.lower(), b.lower()).ratio() = 2M / T, and 1.0 when
\* both strings are empty (difflib's _calculate_ratio)
fuzzy_match_score(text1, text2) ==
    LET a == lower(text1)
        b == lower(text2)
        T == Len(a) + Len(b)
    IN  IF T = 0 THEN <<1, 1>> ELSE <<2 * MatchedLength(a, b), T>>

stop_words ==
    {"the", "be", "to", "of", "and", "a", "in", "that", "have", "i",
     "it", "for", "not", "on", "with", "he", "as", "you", "do", "at",
     "this", "but", "his", "by", "from", "they", "we", "say", "her", "she",
     "or", "an", "will", "my", "one", "all", "would", "there", "their",
     "what", "so", "up", "out", "if", "about", "who", "get", "which", "go",
     "me", "when", "make", "can", "like", "time", "no", "just", "him", "know",
     "take", "people", "into", "year", "your", "good", "some", "could", "them",
     "see", "other", "than", "then", "now", "look", "only", "come", "its", "over",
     "also", "back", "after", "use", "two", "how", "our", "work", "first", "well",
     "way", "even", "new", "want", "because", "any", "these", "give", "day", "most", "us"}

RECURSIVE Count(_, _)
Count(words, w) ==
    IF words = <<>> THEN 0
    ELSE (IF Head(words) = w THEN 1 ELSE 0) + Count(Tail(words), w)

RECURSIVE FirstOccurrences(_, _)
\* the keys of word_freq in insertion order
FirstOccurrences(words, seen) ==
    IF words = <<>> THEN <<>>
    ELSE IF Head(words) \in seen THEN FirstOccurrences(Tail(words), seen)
         ELSE <<Head(words)>> \o FirstOccurrences(Tail(words), seen \cup {Head(words)})

\* [a-z0-9] and \s
AlnumChars ==
    {"a", "b", "c", "d", "e", "f", "g", "h", "i", "j", "k", "l", "m", "n", "o",
     "p", "q", "r", "s", "t", "u", "v", "w", "x", "y", "z",
     "0", "1", "2", "3", "4", "5", "6", "7", "8", "9"}
WhitespaceChars == {" ", "\n", "\t"}

\* text.lower(), then re.sub(r'[^a-z0-9\s]', ' ', text), on a string given
\* as the tuple of its characters
Cleaned(text) ==
    [i \in 1..Len(text) |->
        IF Lower(text[i]) \in AlnumChars \cup WhitespaceChars
        THEN Lower(text[i]) ELSE " "]

RECURSIVE Split(_, _)
\* str.split(): the runs between whitespace, as strings; `word` is the run
\* being read
Split(chars, word) ==
    IF chars = <<>> THEN (IF word = "" THEN <<>> ELSE <<word>>)
    ELSE IF Head(chars) \in WhitespaceChars
         THEN (IF word = "" THEN <<>> ELSE <<word>>) \o Split(Tail(chars), "")
         ELSE Split(Tail(chars), word \o Head(chars))

\* lines 133-140 of extract_keywords: the words of a text
words_of(text) == Split(Cleaned(text), "")

RECURSIVE InsertByFreqBeforeEqual(_, _)
\* the sort as it would be if it were not stable
InsertByFreqBeforeEqual(sorted, x) ==
    IF sorted = <<>> THEN <<x>>
    ELSE IF Head(sorted)[2] > x[2]
         THEN <<Head(sorted)>> \o InsertByFreqBeforeEqual(Tail(sorted), x)
         ELSE <<x>> \o sorted

RECURSIVE InsertByFreq(_, _)
\* x = <<word, freq>> goes after every item whose freq is >= its own, which
\* makes the descending sort stable
InsertByFreq(sorted, x) ==
    IF sorted = <<>> THEN <<x>>
    ELSE IF Head(sorted)[2] >= x[2]
         THEN <<Head(sorted)>> \o InsertByFreq(Tail(sorted), x)
         ELSE <<x>> \o sorted

RECURSIVE SortByFreq(_)
\* sorted(word_freq.items(), key = lambda x: x[1], reverse = True)
SortByFreq(items) ==
    IF items = <<>> THEN <<>>
    ELSE InsertByFreq(SortByFreq(SubSeq(items, 1, Len(items) - 1)), items[Len(items)])

\* the words of the text are already lower-case and split; what is left of
\* extract_keywords is the filter, the count, the sort and the cut
extract_keywords(text, top_n) ==
    LET keywords == SelectSeq(text, LAMBDA word : Len(word) > 2 /\ word \notin stop_words)
        first == FirstOccurrences(keywords, {})
        word_freq == [i \in 1..Len(first) |-> <<first[i], Count(keywords, first[i])>>]
        sorted_keywords == SortByFreq(word_freq)
    IN  [i \in 1..(IF Len(sorted_keywords) < top_n THEN Len(sorted_keywords) ELSE top_n)
            |-> sorted_keywords[i][1]]

Range(f) == {f[i] : i \in DOMAIN f}

\* the overlap as it would be with `intersection / len(doc_set)`
keyword_overlap_of_document(doc_keywords, clause_keywords) ==
    IF doc_keywords = <<>> \/ clause_keywords = <<>> THEN <<0, 1>>
    ELSE LET doc_set == Range(doc_keywords)
             clause_set == Range(clause_keywords)
         IN  <<Cardinality(doc_set \cap clause_set), Cardinality(doc_set)>>

\* <<intersection, union>> as a fraction; 0.0 when either list is empty
keyword_overlap_score(doc_keywords, clause_keywords) ==
    IF doc_keywords = <<>> \/ clause_keywords = <<>> THEN <<0, 1>>
    ELSE LET doc_set == Range(doc_keywords)
             clause_set == Range(clause_keywords)
             union == Cardinality(doc_set \cup clause_set)
         IN  IF union > 0 THEN <<Cardinality(doc_set \cap clause_set), union>>
             ELSE <<0, 1>>

\* the filename with '.', '-' and '_' removed
StripSeparators(s) == replace(replace(replace(s, "."), "-"), "_")

\* clause_number.replace('.', '') in the stripped filename
NumberInFilename(doc_filename, clause_number) ==
    /\ clause_number # <<>>
    /\ Contains(StripSeparators(doc_filename), replace(clause_number, "."))

\* the score as it would be with a weight of 0.50 on the clause number and
\* `return score` for `return min(score, 1.0)`
calculate_match_score_uncapped(doc_filename, doc_text, clause_number, clause_title, clause_description) ==
    LET title_match == fuzzy_match_score(doc_filename, clause_title)
        keyword_score ==
            IF doc_text # <<>> /\ clause_description # <<>>
            THEN keyword_overlap_score(extract_keywords(doc_text, 30),
                                       extract_keywords(clause_description, 30))
            ELSE <<0, 1>>
        den == 10 * title_match[2] * keyword_score[2]
        num == (IF NumberInFilename(doc_filename, clause_number)
                THEN 5 * title_match[2] * keyword_score[2] ELSE 0)
               + 3 * title_match[1] * keyword_score[2]
               + 3 * keyword_score[1] * title_match[2]
    IN  <<num, den>>

\* 0.40 * number + 0.30 * title + 0.30 * keywords, capped at 1.0
calculate_match_score(doc_filename, doc_text, clause_number, clause_title, clause_description) ==
    LET title_match == fuzzy_match_score(doc_filename, clause_title)
        keyword_score ==
            IF doc_text # <<>> /\ clause_description # <<>>
            THEN keyword_overlap_score(extract_keywords(doc_text, 30),
                                       extract_keywords(clause_description, 30))
            ELSE <<0, 1>>
        den == 10 * title_match[2] * keyword_score[2]
        num == (IF NumberInFilename(doc_filename, clause_number)
                THEN 4 * title_match[2] * keyword_score[2] ELSE 0)
               + 3 * title_match[1] * keyword_score[2]
               + 3 * keyword_score[1] * title_match[2]
    IN  IF num > den THEN <<1, 1>> ELSE <<num, den>>

\* a >= b for fractions
ScoreGeq(a, b) == a[1] * b[2] >= b[1] * a[2]


RECURSIVE InsertByScoreAscending(_, _)
\* the sort as it would be without `reverse = True`: lowest score first
InsertByScoreAscending(sorted, x) ==
    IF sorted = <<>> THEN <<x>>
    ELSE IF ScoreGeq(x[2], Head(sorted)[2])
         THEN <<Head(sorted)>> \o InsertByScoreAscending(Tail(sorted), x)
         ELSE <<x>> \o sorted

RECURSIVE InsertByScoreBeforeEqual(_, _)
\* the sort as it would be if it were not stable: x goes before the matches
\* of its own score
InsertByScoreBeforeEqual(sorted, x) ==
    IF sorted = <<>> THEN <<x>>
    ELSE IF ~ScoreGeq(x[2], Head(sorted)[2])
         THEN <<Head(sorted)>> \o InsertByScoreBeforeEqual(Tail(sorted), x)
         ELSE <<x>> \o sorted

RECURSIVE InsertByScore(_, _)
\* x = <<clause_id, score, reason>> goes after every match whose score is >=
\* its own (list.sort is stable)
InsertByScore(sorted, x) ==
    IF sorted = <<>> THEN <<x>>
    ELSE IF ScoreGeq(Head(sorted)[2], x[2])
         THEN <<Head(sorted)>> \o InsertByScore(Tail(sorted), x)
         ELSE <<x>> \o sorted

RECURSIVE SortByScore(_)
\* matches.sort(key = lambda x: x[1], reverse = True)
SortByScore(items) ==
    IF items = <<>> THEN <<>>
    ELSE InsertByScore(SortByScore(SubSeq(items, 1, Len(items) - 1)), items[Len(items)])

\* int(x * 100) of a fraction
Percent(x) == (100 * x[1]) \div x[2]

\* The reason is the list of the signals it names: <<"number">>,
\* <<"title", percent>>, or else <<"keywords", percent>>.
_generate_match_reason(score, filename, clause_number, clause_title) ==
    LET title_match == fuzzy_match_score(filename, clause_title)
        reasons ==
            (IF clause_number # <<>>
                /\ Contains(StripSeparators(filename), replace(clause_number, "."))
             THEN << <<"number">> >> ELSE <<>>)
            \o (IF 2 * title_match[1] > title_match[2]
                THEN << <<"title", Percent(title_match)>> >> ELSE <<>>)
    IN  IF reasons # <<>> THEN reasons ELSE << <<"keywords", Percent(score)>> >>

(* --------------------- the catalog and the tree ----------------------- *)
\* The clauses table as the setup loader leaves it (rows in rowid order);
\* the handlers modelled here only read it.
ClauseRows ==
    << [id |-> 1, standard_id |-> 1,
        clause_number |-> <<"6", ".", "1">>,
        title |-> <<"R", "i", "s", "k">>,
        description |-> <<"hazard", "risk">>],
       [id |-> 2, standard_id |-> 1,
        clause_number |-> <<"5", ".", "2">>,
        title |-> <<"P", "o", "l", "i", "c", "y">>,
        description |-> <<"policy", "statement">>] >>

ClauseIds == {ClauseRows[k].id : k \in DOMAIN ClauseRows}
StandardIds == {ClauseRows[k].standard_id : k \in DOMAIN ClauseRows}
\* a clause id no row carries
NoSuchClause == Len(ClauseRows) + 1

\* SELECT id, clause_number, title, description FROM clauses WHERE standard_id = ?
ClausesOf(standard_id) == SelectSeq(ClauseRows, LAMBDA c : c.standard_id = standard_id)

\* file names: stem and extension
RiskFile == [stem |-> <<"6", ".", "1", "_", "r", "a">>, ext |-> ".txt"]
NotesFile == [stem |-> <<"n", "o", "t", "e", "s">>, ext |-> ".txt"]
FileNames == {RiskFile, NotesFile}

\* the scanned folder and the files it may hold, in os.walk order: the same
\* name occurs in two subfolders
FolderPath == "docs"
WalkOrder ==
    << [dir |-> "a", prefix |-> <<>>, name |-> RiskFile],
       [dir |-> "a", prefix |-> <<>>, name |-> NotesFile],
       [dir |-> "b", prefix |-> <<>>, name |-> RiskFile] >>
Paths == Range(WalkOrder)

\* what a file holds: 0 is no file, the others are distinct byte contents
Contents == {1, 2}
\* the text the extractor reads from a content
TextOf(content) ==
    CASE content = 1 -> <<"hazard", "risk">>
      [] content = 2 -> <<"policy", "statement">>
      [] OTHER -> <<>>

supported_extensions == {".pdf", ".docx", ".doc", ".xlsx", ".xls", ".txt"}

\* the suffix as it would be without `.lower()`
SameExt(ext) == ext

\* Path(file_path).suffix.lower()
LowerExt(ext) ==
    CASE ext = ".TXT" -> ".txt"
      [] OTHER -> ext

\* hashlib.md5 (the scanner) and hashlib.sha256 (backend.calculate_file_hash)
\* of the same bytes are different strings
md5(content) == <<"md5", content>>
sha256(content) == <<"sha256", content>>


(* --------------- EnhancedDocumentScanner: the matcher ----------------- *)
\* extract_text_from_file: <<full_text, filename stem>>
extract_text_from_file(file_path, content) ==
    << IF LowerExt(file_path.name.ext) \in supported_extensions
       THEN TextOf(content) ELSE <<>>,
       file_path.name.stem >>

RECURSIVE ScoredClauses(_, _, _, _)
\* the loop of match_document_to_clauses: one entry per clause at or above
\* the threshold, in clause order
ScoredClauses(doc_filename, doc_text, clauses, threshold) ==
    IF clauses = <<>> THEN <<>>
    ELSE LET clause == Head(clauses)
             score == calculate_match_score(doc_filename, doc_text,
                          clause.clause_number, clause.title, clause.description)
             rest == ScoredClauses(doc_filename, doc_text, Tail(clauses), threshold)
         IN  IF ScoreGeq(score, threshold)
             THEN << <<clause.id, score,
                       _generate_match_reason(score, doc_filename,
                                              clause.clause_number, clause.title)>> >>
                  \o rest
             ELSE rest

match_document_to_clauses(file_path, content, clauses, threshold) ==
    LET extracted == extract_text_from_file(file_path, content)
    IN  SortByScore(ScoredClauses(extracted[2], extracted[1], clauses, threshold))

\* match_document_to_clauses as perform_scan has it called (the clauses of
\* the standard, threshold 0.3), for every file name and content; the result
\* depends on the path through the name only.  The function is pure: Init
\* computes this table once into the variable `matches_of`, which no action
\* changes, and the walk reads it there.
MatchThreshold == <<3, 10>>
DocumentMatches ==
    [name \in FileNames, content \in Contents |->
        match_document_to_clauses([dir |-> "", prefix |-> <<>>, name |-> name],
                                  content, ClausesOf(1), MatchThreshold)] @@ <<>>

VARIABLE matches_of

\* matches[:n]
Take(seq, n) == SubSeq(seq, 1, IF Len(seq) < n THEN Len(seq) ELSE n)

EmptyResults ==
    [documents_scanned |-> 0, documents_matched |-> 0, total_matches |-> 0,
     unmatched_documents |-> <<>>, matches |-> <<>>]

RECURSIVE ScanWalk(_, _, _, _)
\* the walk of scan_folder over the files present, accumulating the results
ScanWalk(walk, tree, max_matches_per_doc, results) ==
    IF walk = <<>> THEN results
    ELSE LET file_path == Head(walk)
             rest == Tail(walk)
         IN  IF tree[file_path] = 0
                \/ LowerExt(file_path.name.ext) \notin supported_extensions
             THEN ScanWalk(rest, tree, max_matches_per_doc, results)
             ELSE LET matches == matches_of[file_path.name, tree[file_path]]
                      top_matches == Take(matches, max_matches_per_doc)
                      entry == [file_path |-> file_path, file_name |-> file_path.name]
                      counted == [results EXCEPT !.documents_scanned = @ + 1]
                  IN  ScanWalk(rest, tree, max_matches_per_doc,
                          IF top_matches # <<>>
                          THEN [counted EXCEPT
                                  !.documents_matched = @ + 1,
                                  !.total_matches = @ + Len(top_matches),
                                  !.matches = Append(@,
                                      [file_path |-> file_path,
                                       file_name |-> file_path.name,
                                       clause_matches |-> top_matches])]
                          ELSE [counted EXCEPT !.unmatched_documents = Append(@, entry)])

\* EnhancedDocumentScanner.scan_folder on a folder that exists
scan_folder_results(tree, max_matches_per_doc) ==
    ScanWalk(WalkOrder, tree, max_matches_per_doc, EmptyResults)

\* every tree the folder can hold
Trees == [Paths -> {0} \cup Contents]
EmptyTree == [p \in Paths |-> 0]



(* ------------------------------ state --------------------------------- *)
VARIABLES
    folder_exists,  \* os.path.exists(FolderPath)
    files,          \* the tree under FolderPath: path -> content, 0 when absent
    db,             \* the committed tables of compliance.db
    tasks,          \* the perform_scan background tasks scheduled and not over
    loop,           \* the task that holds the event loop, 0 when it is free
    response,       \* the answer of the request handler that just ran, until sent
    ops,            \* the operations so far (see MaxOps)
    last,           \* history: the latest scan started (see NoScan)
    call,           \* a call of a function of the scanner on its own (see NoCall)
    clause_table    \* the clauses table with its parent column (see ClauseSpec)

vars == <<matches_of, call, clause_table, folder_exists, files, db, tasks, loop,
          response, ops, last>>

\* timestamp columns hold 0 for NULL
Null == 0

\* datetime.now(): the clock is read as the number of scans started so far
Now == Len(db.scan_history)

\* where a perform_scan task stands:
\*   pending  scheduled by scan_folder (backend.py:333), not started
\*   match    at the top of the loop body for matches[i] (371)
\*   revise   MAX(revision_number) is read (392-396); the INSERT is next (398)
\*   done     committed and closed (452-453): perform_scan has returned
\*   raised   an exception has left perform_scan
\* The server then drops the task (task_over).
RunningPcs == {"match", "revise"}
OverPcs == {"done", "raised"}

\* perform_scan as it would be with an await in the loop over the matches
AwaitInLoop == {"match"}

\* perform_scan as it would be with an await between the SELECT MAX and the
\* INSERT of the revision
AwaitBeforeInsert == {"revise"}

\* The places where perform_scan awaits, that is, where it lets the event
\* loop run another handler: lines 337-453 hold no await.
AwaitPoints == {}

\* a task not started waits for the loop like any other handler
GivesUpLoop(pc) == pc \in AwaitPoints \cup {"pending"} \cup OverPcs

NoTx == [open |-> FALSE, documents |-> <<>>, document_revisions |-> <<>>]

NewTask(standard_id, folder_path) ==
    [pc |-> "pending", standard_id |-> standard_id, folder_path |-> folder_path,
     scan_id |-> 0, scan_results |-> EmptyResults, i |-> 0,
     documents_added |-> 0, documents_updated |-> 0,
     existing_doc |-> 0, max_rev |-> 0, file_hash |-> <<>>,
     tx |-> NoTx, error |-> ""]

\* what the connection would read if it saw the committed tables only, not
\* the rows it has written and not committed
ViewOnCommitted(d, task) ==
    [open |-> FALSE, documents |-> d.documents,
     document_revisions |-> d.document_revisions]

\* what the task's connection reads: its own uncommitted writes, if any
ViewOn(d, task) ==
    IF task.tx.open THEN task.tx
    ELSE [open |-> FALSE, documents |-> d.documents,
          document_revisions |-> d.document_revisions]

View(task) == ViewOn(db, task)

\* the first write of a connection opens its transaction
Written(task, documents, document_revisions) ==
    [open |-> TRUE, documents |-> documents, document_revisions |-> document_revisions]

NoResponse == [op |-> "none", args |-> <<>>, status |-> 0, detail |-> ""]

Answer(op, args, status, detail) ==
    [op |-> op, args |-> args, status |-> status, detail |-> detail]

\* nothing is on its way out: no answer unsent, no task over and not dropped
Settled ==
    /\ response = NoResponse
    /\ \A t \in DOMAIN tasks : tasks[t].pc \notin OverPcs

\* History variable `last`, read by no handler: what is known of the latest
\* scan started.
\*   scan     its id in scan_history, 0 when no scan has started
\*   tree     the files when it started
\*   calm     since it started, no upload and no reassignment was stored, and
\*            no file was changed while it ran
\*   repeats  the scan started before it was one of the same standard and
\*            folder, ran to completion and was calm until this one started
\*   prior    the files when that scan started (when repeats)
NoScan == [scan |-> 0, tree |-> EmptyTree, calm |-> FALSE,
           repeats |-> FALSE, prior |-> EmptyTree]

\* a file is changed: the scan is no longer calm if it is still running
FileChanged ==
    last' = IF \E t \in DOMAIN tasks : tasks[t].scan_id = last.scan /\ last.scan # 0
            THEN [last EXCEPT !.calm = FALSE] ELSE last

\* a document is stored or moved by a client
DocumentChanged == last' = [last EXCEPT !.calm = FALSE]

ScanStarted(scan_id, standard_id, folder_path) ==
    LET repeats == /\ last.scan # 0
                   /\ last.calm
                   /\ db.scan_history[last.scan].completed_at # Null
                   /\ db.scan_history[last.scan].standard_id = standard_id
                   /\ db.scan_history[last.scan].folder_path = folder_path
    IN  last' = [scan |-> scan_id, tree |-> files, calm |-> TRUE,
                 repeats |-> repeats,
                 prior |-> IF repeats THEN last.tree ELSE EmptyTree]

(* ------------------- the clauses table and its tree ------------------- *)
\* str.rsplit('.', 1)[0]: what stands before the last '.'
BeforeLastDot(clause_num) ==
    LET dots == {i \in DOMAIN clause_num : clause_num[i] = "."}
        last_dot == CHOOSE i \in dots : \A j \in dots : j <= i
    IN  IF dots = {} THEN clause_num ELSE SubSeq(clause_num, 1, last_dot - 1)

\* a row of clauses: the columns the tree is made of
ClauseRow(standard_id, clause_number, parent_clause_id) ==
    [standard_id |-> standard_id, clause_number |-> clause_number,
     parent_clause_id |-> parent_clause_id]

RECURSIVE InsertClauses(_, _, _, _)
\* the loop of the setup loader (setup_data.py:213-227): the parent is the
\* row that clause_map holds for the number before the last '.', if any
InsertClauses(rows, standard_id, sample, clause_map) ==
    IF sample = <<>> THEN rows
    ELSE LET clause_num == Head(sample)
             parent_num == BeforeLastDot(clause_num)
             parent_id ==
                 IF \E i \in DOMAIN clause_num : clause_num[i] = "."
                 THEN IF parent_num \in DOMAIN clause_map
                      THEN clause_map[parent_num] ELSE Null
                 ELSE Null
             lastrowid == Len(rows) + 1
         IN  InsertClauses(Append(rows, ClauseRow(standard_id, clause_num, parent_id)),
                           standard_id, Tail(sample),
                           (clause_num :> lastrowid) @@ clause_map)

\* the clause numbers of ClauseRows, in the order of the loader's list
LoadedNumbers == [k \in DOMAIN ClauseRows |-> ClauseRows[k].clause_number]

\* the clauses table as the setup loader leaves it, parents included
LoadedClauses == InsertClauses(<<>>, 1, LoadedNumbers, <<>>)

\* The functions of the scanner are pure; ScorerSpec calls them one at a
\* time on arguments of its own, outside the service.  `call` holds the
\* function, its arguments and, once it has returned, its result.  The
\* service (Spec) makes no such call.
NoCall == [fn |-> "none", args |-> <<>>, returned |-> FALSE, result |-> <<>>]

EmptyDb ==
    [documents |-> <<>>, document_revisions |-> <<>>, scan_history |-> <<>>,
     user_corrections |-> <<>>, monitored_folders |-> <<>>]

Init ==
    /\ matches_of = DocumentMatches
    /\ call = NoCall
    /\ clause_table = LoadedClauses
    /\ folder_exists \in BOOLEAN
    /\ files \in Trees
    /\ (~folder_exists => files = EmptyTree)
    /\ db = EmptyDb
    /\ tasks = <<>>
    /\ loop = 0
    /\ response = NoResponse
    /\ ops = 0
    /\ last = NoScan

(* -------------------- the owner of the scanned tree ------------------- *)
WriteFile(path, content) ==
    /\ Settled
    /\ folder_exists
    /\ ops < MaxOps
    /\ files[path] # content
    /\ files' = [files EXCEPT ![path] = content]
    /\ ops' = ops + 1
    /\ FileChanged
    /\ UNCHANGED <<matches_of, call, clause_table, folder_exists, db, tasks, loop, response>>

RemoveFolder ==
    /\ Settled
    /\ folder_exists
    /\ ops < MaxOps
    /\ folder_exists' = FALSE
    /\ files' = EmptyTree
    /\ ops' = ops + 1
    /\ FileChanged
    /\ UNCHANGED <<matches_of, call, clause_table, db, tasks, loop, response>>

CreateFolder ==
    /\ Settled
    /\ ~folder_exists
    /\ ops < MaxOps
    /\ folder_exists' = TRUE
    /\ ops' = ops + 1
    /\ FileChanged
    /\ UNCHANGED <<matches_of, call, clause_table, files, db, tasks, loop, response>>

(* ------------------------- the ASGI server ---------------------------- *)
\* the answer goes out; a background task of the request runs after this
send_response ==
    /\ response # NoResponse
    /\ response' = NoResponse
    /\ UNCHANGED <<matches_of, call, clause_table, folder_exists, files, db, tasks, loop, ops, last>>

\* tasks without the t-th
Without(t) == [k \in 1..(Len(tasks) - 1) |-> IF k < t THEN tasks[k] ELSE tasks[k + 1]]

\* the background task is over (it returned, or its exception is logged)
\* and the server drops it
task_over(t) ==
    /\ tasks[t].pc \in OverPcs
    /\ tasks' = Without(t)
    /\ UNCHANGED <<matches_of, call, clause_table, folder_exists, files, db, loop, response, ops, last>>

\* the server process ends (a kill, a power cut): every task is lost with
\* its uncommitted writes; the next start serves again
Terminate ==
    /\ Settled
    /\ tasks # <<>>
    /\ tasks' = <<>>
    /\ loop' = 0
    /\ UNCHANGED <<matches_of, call, clause_table, folder_exists, files, db, response, ops, last>>

(* ---------------------- POST /api/scan (handler) ---------------------- *)
\* scan_folder: 400 when the folder is missing, else the background task
scan_folder(standard_id, folder_path) ==
    /\ Settled
    /\ loop = 0
    /\ IF ~folder_exists
       THEN /\ response' = Answer("scan", <<standard_id>>, 400, "Folder path does not exist")
            /\ UNCHANGED <<tasks, ops>>
       ELSE /\ ops < MaxOps
            /\ tasks' = Append(tasks, NewTask(standard_id, folder_path))
            /\ ops' = ops + 1
            /\ response' = Answer("scan", <<standard_id>>, 200, "Scan started")
    /\ UNCHANGED <<matches_of, call, clause_table, folder_exists, files, db, loop, last>>

(* --------------------------- perform_scan ----------------------------- *)
\* the task may take its next step: it holds the loop, or the loop is free
\* and the task stands where it waits for it
MayRun(t) ==
    \/ loop = t
    \/ loop = 0 /\ GivesUpLoop(tasks[t].pc)

LoopAfter(t, pc) == IF GivesUpLoop(pc) THEN 0 ELSE t

\* an exception leaves perform_scan: its locals are gone, and the connection
\* is dropped with its uncommitted writes
Raise(task, error) ==
    [NewTask(task.standard_id, task.folder_path) EXCEPT
        !.pc = "raised", !.error = error, !.scan_id = task.scan_id]

\* the INSERT as it would be without OR REPLACE on a column not UNIQUE
InsertFolder(monitored_folders, standard_id, folder_path, last_scan) ==
    Append(monitored_folders,
           [standard_id |-> standard_id, folder_path |-> folder_path,
            is_active |-> 1, last_scan |-> last_scan])

\* INSERT OR REPLACE INTO monitored_folders: folder_path is UNIQUE
UpsertFolder(monitored_folders, standard_id, folder_path, last_scan) ==
    Append(SelectSeq(monitored_folders, LAMBDA m : m.folder_path # folder_path),
           [standard_id |-> standard_id, folder_path |-> folder_path,
            is_active |-> 1, last_scan |-> last_scan])

\* lines 434-453 on the database `d`: UPDATE scan_history, the monitored
\* folder, and the commit of everything the connection wrote
Completed(d, task) ==
    LET written == IF task.tx.open THEN task.tx
                   ELSE [documents |-> d.documents,
                         document_revisions |-> d.document_revisions]
    IN  [d EXCEPT
            !.documents = written.documents,
            !.document_revisions = written.document_revisions,
            !.scan_history[task.scan_id] =
                [@ EXCEPT !.documents_found = task.scan_results.documents_scanned,
                          !.documents_matched = task.scan_results.documents_matched,
                          !.documents_added = task.documents_added,
                          !.documents_updated = task.documents_updated,
                          !.completed_at = Len(d.scan_history)],
            !.monitored_folders =
                UpsertFolder(@, task.standard_id, task.folder_path, Len(d.scan_history))]

\* the next iteration of `for match in scan_results['matches']`, or the end
Advance(task) ==
    IF task.i < Len(task.scan_results.matches)
    THEN [task EXCEPT !.i = @ + 1, !.pc = "match",
                      !.existing_doc = 0, !.max_rev = 0, !.file_hash = <<>>]
    ELSE [task EXCEPT !.pc = "done"]

\* the step as it would be with a conn.commit() after every statement of
\* the loop: what the task has written is in the store when the step ends
ProceedAutocommit(t, after, d) ==
    /\ IF after.pc = "done"
       THEN /\ db' = Completed(d, after)
            /\ tasks' = [tasks EXCEPT ![t] = [after EXCEPT !.tx = NoTx]]
       ELSE /\ db' = [d EXCEPT
                        !.documents = ViewOn(d, after).documents,
                        !.document_revisions = ViewOn(d, after).document_revisions]
            /\ tasks' = [tasks EXCEPT ![t] = [after EXCEPT !.tx = NoTx]]
    /\ loop' = LoopAfter(t, after.pc)

\* the step of task t leaves it as `after` on the database `d`: a task that
\* is done has committed and closed its connection
Proceed(t, after, d) ==
    /\ IF after.pc = "done"
       THEN /\ db' = Completed(d, after)
            /\ tasks' = [tasks EXCEPT ![t] = [after EXCEPT !.tx = NoTx]]
       ELSE /\ db' = d
            /\ tasks' = [tasks EXCEPT ![t] = after]
    /\ loop' = LoopAfter(t, after.pc)

\* lines 339-369: INSERT INTO scan_history and commit, the clauses,
\* scanner.scan_folder (ValueError when the folder is missing), the counters
perform_scan_start(t) ==
    /\ Settled
    /\ tasks[t].pc = "pending"
    /\ MayRun(t)
    /\ LET task == [tasks[t] EXCEPT !.scan_id = Len(db.scan_history) + 1]
           started == [db EXCEPT !.scan_history = Append(@,
                          [standard_id |-> task.standard_id,
                           folder_path |-> task.folder_path,
                           started_at |-> Now + 1, completed_at |-> Null,
                           documents_found |-> 0, documents_matched |-> 0,
                           documents_added |-> 0, documents_updated |-> 0])]
           \* match_threshold = 0.3, max_matches_per_doc = 1 (lines 363-364)
           results == scan_folder_results(files, 1)
           after ==
               IF ~folder_exists THEN Raise(task, "ValueError")
               ELSE IF results.matches = <<>>
               THEN [task EXCEPT !.scan_results = results, !.pc = "done"]
               ELSE [task EXCEPT !.scan_results = results, !.i = 1, !.pc = "match"]
       IN  /\ Proceed(t, after, started)
           /\ ScanStarted(task.scan_id, task.standard_id, task.folder_path)
    /\ UNCHANGED <<matches_of, call, clause_table, folder_exists, files, response, ops>>

\* SELECT id, file_hash FROM documents WHERE file_name = ? AND clause_id = ?
\* and fetchone(): the first such row, 0 when there is none
ExistingDoc(documents, file_name, clause_id) ==
    LET ids == {d \in DOMAIN documents :
                   /\ documents[d].file_name = file_name
                   /\ documents[d].clause_id = clause_id}
    IN  IF ids = {} THEN 0 ELSE CHOOSE d \in ids : \A e \in ids : d <= e

\* MAX(revision_number) with `or 1` for `or 0`
MaxRevisionOrOne(document_revisions, document_id) ==
    LET nums == {document_revisions[r].revision_number :
                    r \in {q \in DOMAIN document_revisions :
                              document_revisions[q].document_id = document_id}}
    IN  IF nums = {} THEN 1 ELSE CHOOSE n \in nums : \A m \in nums : n >= m

\* SELECT MAX(revision_number) ... WHERE document_id = ?, `or 0`
MaxRevision(document_revisions, document_id) ==
    LET nums == {document_revisions[r].revision_number :
                    r \in {q \in DOMAIN document_revisions :
                              document_revisions[q].document_id = document_id}}
    IN  IF nums = {} THEN 0 ELSE CHOOSE n \in nums : \A m \in nums : n >= m

\* the same with an unchanged branch that also stores the path of the file
\* (`SET last_scanned = ?, file_path = ?`)
ReconcileMatchRepathing(task) ==
    LET match == task.scan_results.matches[task.i]
        file_path == match.file_path
        file_name == match.file_name
        view == View(task)
    IN  IF files[file_path] = 0 THEN Raise(task, "FileNotFoundError")
        ELSE IF match.clause_matches = <<>> THEN Advance(task)
        ELSE
        LET file_hash == md5(files[file_path])
            best_clause_id == match.clause_matches[1][1]
            best_score == match.clause_matches[1][2]
            match_reason == match.clause_matches[1][3]
            existing_doc == ExistingDoc(view.documents, file_name, best_clause_id)
        IN  IF existing_doc # 0
            THEN IF view.documents[existing_doc].file_hash # file_hash
                 THEN [task EXCEPT
                         !.pc = "revise",
                         !.existing_doc = existing_doc,
                         !.file_hash = file_hash,
                         !.max_rev = MaxRevision(view.document_revisions, existing_doc)]
                 ELSE Advance([task EXCEPT !.tx =
                         Written(task,
                             [view.documents EXCEPT ![existing_doc] =
                                 [@ EXCEPT !.last_scanned = Now,
                                           !.file_path = file_path]],
                             view.document_revisions)])
            ELSE Advance([task EXCEPT
                     !.documents_added = @ + 1,
                     !.tx = Written(task,
                         Append(view.documents,
                             [clause_id |-> best_clause_id, file_name |-> file_name,
                              file_path |-> file_path, file_hash |-> file_hash,
                              status |-> "active", last_scanned |-> Now,
                              match_confidence |-> best_score,
                              match_reason |-> match_reason]),
                         view.document_revisions)])

\* lines 372-396 and 415-432 for matches[i]: the hash, the lookup, and the
\* branch; the changed branch stops after reading MAX(revision_number)
ReconcileMatch(task) ==
    LET match == task.scan_results.matches[task.i]
        file_path == match.file_path
        file_name == match.file_name
        view == View(task)
    IN  IF files[file_path] = 0 THEN Raise(task, "FileNotFoundError")
        ELSE IF match.clause_matches = <<>> THEN Advance(task)
        ELSE
        LET file_hash == md5(files[file_path])
            best_clause_id == match.clause_matches[1][1]
            best_score == match.clause_matches[1][2]
            match_reason == match.clause_matches[1][3]
            existing_doc == ExistingDoc(view.documents, file_name, best_clause_id)
        IN  IF existing_doc # 0
            THEN IF view.documents[existing_doc].file_hash # file_hash
                 THEN [task EXCEPT
                         !.pc = "revise",
                         !.existing_doc = existing_doc,
                         !.file_hash = file_hash,
                         !.max_rev = MaxRevision(view.document_revisions, existing_doc)]
                 ELSE Advance([task EXCEPT !.tx =
                         Written(task,
                             [view.documents EXCEPT ![existing_doc].last_scanned = Now],
                             view.document_revisions)])
            ELSE Advance([task EXCEPT
                     !.documents_added = @ + 1,
                     !.tx = Written(task,
                         Append(view.documents,
                             [clause_id |-> best_clause_id, file_name |-> file_name,
                              file_path |-> file_path, file_hash |-> file_hash,
                              status |-> "active", last_scanned |-> Now,
                              match_confidence |-> best_score,
                              match_reason |-> match_reason]),
                         view.document_revisions)])

perform_scan_match(t) ==
    /\ Settled
    /\ tasks[t].pc = "match"
    /\ MayRun(t)
    /\ Proceed(t, ReconcileMatch(tasks[t]), db)
    /\ UNCHANGED <<matches_of, call, clause_table, folder_exists, files, response, ops, last>>

\* the revision_number of the INSERT (line 402)
NextRevision(max_rev) == max_rev + 1

\* lines 398-414 as they would be with one revision row kept per document
\* (INSERT OR REPLACE keyed by document_id)
ReviseDocumentReplacing(task) ==
    LET match == task.scan_results.matches[task.i]
        best_score == match.clause_matches[1][2]
        match_reason == match.clause_matches[1][3]
        view == View(task)
    IN  Advance([task EXCEPT
            !.documents_updated = @ + 1,
            !.tx = Written(task,
                [view.documents EXCEPT ![task.existing_doc] =
                    [@ EXCEPT !.file_hash = task.file_hash,
                              !.file_path = match.file_path,
                              !.last_scanned = Now,
                              !.match_confidence = best_score,
                              !.match_reason = match_reason]],
                Append(SelectSeq(view.document_revisions,
                                 LAMBDA row : row.document_id # task.existing_doc),
                    [document_id |-> task.existing_doc,
                     revision_number |-> NextRevision(task.max_rev),
                     file_path |-> match.file_path,
                     file_hash |-> task.file_hash,
                     notes |-> <<"Auto-updated by scan", best_score>>,
                     created_at |-> Now]))])

\* lines 398-414: INSERT INTO document_revisions with max_rev + 1, UPDATE
\* documents, documents_updated += 1
ReviseDocument(task) ==
    LET match == task.scan_results.matches[task.i]
        best_score == match.clause_matches[1][2]
        match_reason == match.clause_matches[1][3]
        view == View(task)
    IN  Advance([task EXCEPT
            !.documents_updated = @ + 1,
            !.tx = Written(task,
                [view.documents EXCEPT ![task.existing_doc] =
                    [@ EXCEPT !.file_hash = task.file_hash,
                              !.file_path = match.file_path,
                              !.last_scanned = Now,
                              !.match_confidence = best_score,
                              !.match_reason = match_reason]],
                Append(view.document_revisions,
                    [document_id |-> task.existing_doc,
                     revision_number |-> NextRevision(task.max_rev),
                     file_path |-> match.file_path,
                     file_hash |-> task.file_hash,
                     notes |-> <<"Auto-updated by scan", best_score>>,
                     created_at |-> Now]))])

perform_scan_revise(t) ==
    /\ Settled
    /\ tasks[t].pc = "revise"
    /\ MayRun(t)
    /\ Proceed(t, ReviseDocument(tasks[t]), db)
    /\ UNCHANGED <<matches_of, call, clause_table, folder_exists, files, response, ops, last>>

(* ------------------- POST /api/documents/upload ----------------------- *)
\* the handlers as they would be without the SELECT on clauses
ClauseUnchecked(clause_id) == TRUE

ClauseExists(clause_id) == clause_id \in ClauseIds

\* upload_document: 404 for an unknown clause; else the file is stored, a
\* Document and its revision 1 are inserted and committed
upload_document(clause_id, file_name, content) ==
    /\ Settled
    /\ loop = 0
    /\ IF ~ClauseExists(clause_id)
       THEN /\ response' = Answer("upload", <<clause_id>>, 404, "Clause not found")
            /\ UNCHANGED <<db, ops, last>>
       ELSE /\ ops < MaxOps
            /\ DocumentChanged
            /\ LET document_id == Len(db.documents) + 1
                   \* the time stamp in the stored name differs from upload to upload
                   file_path == [dir |-> "document_storage",
                                 prefix |-> <<clause_id, document_id>>, name |-> file_name]
                   file_hash == sha256(content)
               IN  db' = [db EXCEPT
                       !.documents = Append(@,
                           [clause_id |-> clause_id, file_name |-> file_name,
                            file_path |-> file_path, file_hash |-> file_hash,
                            status |-> "active", last_scanned |-> Null,
                            match_confidence |-> <<0, 1>>, match_reason |-> <<>>]),
                       !.document_revisions = Append(@,
                           [document_id |-> document_id, revision_number |-> 1,
                            file_path |-> file_path, file_hash |-> file_hash,
                            notes |-> <<>>, created_at |-> Null])]
            /\ ops' = ops + 1
            /\ response' = Answer("upload", <<clause_id>>, 200, "Document uploaded successfully")
    /\ UNCHANGED <<matches_of, call, clause_table, folder_exists, files, tasks, loop>>

(* --------------- POST /api/documents/{id}/reassign -------------------- *)
\* the UPDATE as it would be with `SET clause_id = ?` alone
ReassignedClauseOnly(document, new_clause_id) ==
    [document EXCEPT !.clause_id = new_clause_id]

\* the UPDATE as it would be if it also stamped the row as scanned
\* (`last_scanned = CURRENT_TIMESTAMP`, a time later than any on record)
ReassignedRescanned(document, new_clause_id) ==
    [document EXCEPT !.clause_id = new_clause_id,
                     !.match_confidence = <<1, 1>>,
                     !.match_reason = << <<"manual">> >>,
                     !.last_scanned = Now + 1]

\* the UPDATE of lines 643-651: the clause, confidence 1.0, and the reason
\* "Manually assigned by user: ..."
Reassigned(document, new_clause_id) ==
    [document EXCEPT !.clause_id = new_clause_id,
                     !.match_confidence = <<1, 1>>,
                     !.match_reason = << <<"manual">> >>]

\* the INSERT INTO user_corrections of lines 634-640
Correction(document_id, new_clause_id, created_at) ==
    [original_document_id |-> document_id,
     corrected_document_id |-> document_id,
     clause_id |-> new_clause_id,
     reason |-> "Manual reassignment", created_at |-> created_at]

\* reassign_document: 404 for an unknown document, nothing to do when the
\* clause is the current one, 404 for an unknown clause; else the
\* correction row and the UPDATE of the document, committed together
reassign_document(document_id, new_clause_id) ==
    /\ Settled
    /\ loop = 0
    /\ IF document_id \notin DOMAIN db.documents
       THEN /\ response' = Answer("reassign", <<document_id, new_clause_id>>,
                                  404, "Document not found")
            /\ UNCHANGED <<db, ops, last>>
       ELSE IF db.documents[document_id].clause_id = new_clause_id
       THEN /\ response' = Answer("reassign", <<document_id, new_clause_id>>,
                                  200, "Document already in this clause")
            /\ UNCHANGED <<db, ops, last>>
       ELSE IF ~ClauseExists(new_clause_id)
       THEN /\ response' = Answer("reassign", <<document_id, new_clause_id>>,
                                  404, "Target clause not found")
            /\ UNCHANGED <<db, ops, last>>
       ELSE /\ ops < MaxOps
            /\ ops' = ops + 1
            /\ DocumentChanged
            /\ db' = [db EXCEPT
                   !.user_corrections = Append(@, Correction(document_id, new_clause_id, Now)),
                   !.documents[document_id] = Reassigned(@, new_clause_id)]
            /\ response' = Answer("reassign", <<document_id, new_clause_id>>,
                                  200, "Document reassigned")
    /\ UNCHANGED <<matches_of, call, clause_table, folder_exists, files, tasks, loop>>

(* --------------- the scanner's functions by themselves ---------------- *)
\* The arguments the functions are called on: strings of at most MaxLen
\* characters of a clause number ("6"), its separators, and nothing else;
\* titles that share a character with such a string or none; texts and
\* descriptions of keywords; keyword lists, with repetitions.
Alphabet == {"6", ".", "-"}
Strings == UNION {[1..n -> Alphabet] : n \in 0..MaxLen}
Titles == {<<>>, <<"6">>}
Texts == {<<>>, <<"risk">>}
Descriptions == {<<>>, <<"risk">>, <<"policy">>}
Keywords == {"risk", "policy"}
KeywordLists == UNION {[1..n -> Keywords] : n \in 0..MaxLen}
\* thresholds a caller passes: 0.0 and the default 0.3
Thresholds == {<<0, 1>>, MatchThreshold}
\* the files handed to match_document_to_clauses: a name is never empty
StemPaths ==
    {[dir |-> "", prefix |-> <<>>, name |-> [stem |-> stem, ext |-> ".txt"]] :
        stem \in Strings \ {<<>>}}
\* the clauses a one-row clause list may hold
Clauses ==
    {[id |-> 1, standard_id |-> 1, clause_number |-> clause_number,
      title |-> title, description |-> description] :
        clause_number \in Strings, title \in Titles, description \in Descriptions}

Called(fn, args) == [fn |-> fn, args |-> args, returned |-> FALSE, result |-> <<>>]

\* the tree handed to scan_folder: a supported file, one with its
\* extension in capitals, one of another type, and a second folder
ShoutFile == [stem |-> <<"n", "o", "t", "e", "s">>, ext |-> ".TXT"]
ReadmeFile == [stem |-> <<"n", "o", "t", "e", "s">>, ext |-> ".md"]
ScanOrder ==
    << [dir |-> "a", prefix |-> <<>>, name |-> RiskFile],
       [dir |-> "a", prefix |-> <<>>, name |-> ShoutFile],
       [dir |-> "a", prefix |-> <<>>, name |-> ReadmeFile],
       [dir |-> "b", prefix |-> <<>>, name |-> RiskFile] >>
ScanPaths == Range(ScanOrder)
ScanTrees == [ScanPaths -> {0} \cup Contents]
\* match_threshold: the default 0.3 and 0.5; max_matches_per_doc: 1 and 2
ScanThresholds == {MatchThreshold, <<1, 2>>}
MaxMatches == {1, 2}

\* what match_document_to_clauses returns on the files of ScanOrder that
\* scan_folder hands to it, for the threshold of one call of scan_folder
ScanMatches(threshold) ==
    [name \in {RiskFile, ShoutFile}, content \in Contents |->
        match_document_to_clauses([dir |-> "", prefix |-> <<>>, name |-> name],
                                  content, ClausesOf(1), threshold)] @@ <<>>

\* the call is one of scan_folder, with the matcher's results at hand
IsScanCall ==
    \E threshold \in ScanThresholds :
        /\ matches_of = ScanMatches(threshold)
        /\ \E tree \in ScanTrees, max_matches_per_doc \in MaxMatches :
              call = Called("scan_folder", <<tree, threshold, max_matches_per_doc>>)


\* the clauses of a list of three: a number that is in some names or in
\* none, and a title, a description, or neither
ListedClauses ==
    {[id |-> 0, standard_id |-> 1, clause_number |-> clause_number,
      title |-> td[1], description |-> td[2]] :
        clause_number \in {<<"6">>, <<"-">>},
        td \in {<< <<>>, <<>> >>, << <<"6">>, <<>> >>, << <<>>, <<"risk">> >>}}
\* the rows of a SELECT: the id of a row is its place
ClauseLists ==
    {[k \in 1..3 |-> [list[k] EXCEPT !.id = k]] : list \in [1..3 -> ListedClauses]}

\* the pieces a text is written with: capitals, punctuation, a stop word,
\* a word too short, a word cut in two by a hyphen
Pieces ==
    {<<"R", "i", "s", "k">>, <<"r", "i", "s", "k", ",">>, <<"t", "h", "e">>,
     <<"a", "b">>, <<"a", "u", "d", "i", "t">>, <<"x", "-", "r", "a", "y", "1">>}
PieceLists == UNION {[1..n -> Pieces] : n \in 0..MaxWords}

RECURSIVE Joined(_)
\* ' '.join(pieces)
Joined(pieces) ==
    IF pieces = <<>> THEN <<>>
    ELSE IF Len(pieces) = 1 THEN Head(pieces)
    ELSE Head(pieces) \o <<" ">> \o Joined(Tail(pieces))

\* top_n: none, fewer than the words of a text, and the 30 of the scorer
TopNs == {0, 1, 2, 30}

\* the call is one of a function on arguments from the sets above
IsCall ==
    \/ \E pieces \in PieceLists, top_n \in TopNs :
          call = Called("extract_keywords", <<Joined(pieces), top_n>>)
    \/ \E text1 \in Strings, text2 \in Strings :
          call = Called("fuzzy_match_score", <<text1, text2>>)
    \/ \E doc_keywords \in KeywordLists, clause_keywords \in KeywordLists :
          call = Called("keyword_overlap_score", <<doc_keywords, clause_keywords>>)
    \/ \E doc_filename \in Strings, doc_text \in Texts, clause \in Clauses :
          call = Called("calculate_match_score",
                        <<doc_filename, doc_text, clause.clause_number,
                          clause.title, clause.description>>)
    \/ \E file_path \in StemPaths, content \in Contents,
          clause \in Clauses, threshold \in Thresholds :
          call = Called("match_document_to_clauses",
                        <<file_path, content, <<clause>>, threshold>>)
    \/ \E file_path \in StemPaths, clauses \in ClauseLists, threshold \in Thresholds :
          call = Called("match_document_to_clauses",
                        <<file_path, 1, clauses, threshold>>)

\* a scanner that nobody has called yet, beside a service at rest
ScorerInit ==
    /\ clause_table = LoadedClauses
    /\ folder_exists = FALSE
    /\ files = EmptyTree
    /\ db = EmptyDb
    /\ tasks = <<>>
    /\ loop = 0
    /\ response = NoResponse
    /\ ops = 0
    /\ last = NoScan
    /\ \/ matches_of = DocumentMatches /\ IsCall
       \/ IsScanCall

Returns(fn, result) ==
    /\ call.fn = fn
    /\ ~call.returned
    /\ call' = [call EXCEPT !.returned = TRUE, !.result = result]
    /\ UNCHANGED <<matches_of, clause_table, folder_exists, files, db, tasks,
                   loop, response, ops, last>>

call_fuzzy_match_score ==
    /\ call.fn = "fuzzy_match_score"
    /\ Returns("fuzzy_match_score", fuzzy_match_score(call.args[1], call.args[2]))

call_keyword_overlap_score ==
    /\ call.fn = "keyword_overlap_score"
    /\ Returns("keyword_overlap_score", keyword_overlap_score(call.args[1], call.args[2]))

call_calculate_match_score ==
    /\ call.fn = "calculate_match_score"
    /\ Returns("calculate_match_score",
               calculate_match_score(call.args[1], call.args[2], call.args[3],
                                     call.args[4], call.args[5]))

call_match_document_to_clauses ==
    /\ call.fn = "match_document_to_clauses"
    /\ Returns("match_document_to_clauses",
               match_document_to_clauses(call.args[1], call.args[2],
                                         call.args[3], call.args[4]))

call_scan_folder ==
    /\ call.fn = "scan_folder"
    /\ Returns("scan_folder",
               ScanWalk(ScanOrder, call.args[1], call.args[3], EmptyResults))

call_extract_keywords ==
    /\ call.fn = "extract_keywords"
    /\ Returns("extract_keywords",
               extract_keywords(words_of(call.args[1]), call.args[2]))

ScorerNext ==
    \/ call_scan_folder
    \/ call_extract_keywords
    \/ call_fuzzy_match_score
    \/ call_keyword_overlap_score
    \/ call_calculate_match_score
    \/ call_match_document_to_clauses

ScorerSpec == ScorerInit /\ [][ScorerNext]_vars

(* ---------------------- building the catalogue ------------------------ *)
\* the lists a loader goes through: a clause after its parent, a clause
\* before its parent, and the list of ClauseRows
Samples ==
    {<< <<"6">>, <<"6", ".", "1">> >>,
     << <<"6", ".", "1">>, <<"6">> >>,
     LoadedNumbers}
\* the numbers a client gives to the clauses it creates
ClauseNumbers == {<<"6">>, <<"6", ".", "1">>}

\* an empty clauses table beside a service at rest
ClauseInit ==
    /\ matches_of = DocumentMatches
    /\ call = NoCall
    /\ clause_table = <<>>
    /\ folder_exists = FALSE
    /\ files = EmptyTree
    /\ db = EmptyDb
    /\ tasks = <<>>
    /\ loop = 0
    /\ response = NoResponse
    /\ ops = 0
    /\ last = NoScan

\* load_iso45001_sample: the rows of the list, under the standard of the
\* loader
load_iso45001_sample(standard_id, sample) ==
    /\ Len(clause_table) + Len(sample) <= MaxClauses
    /\ clause_table' = InsertClauses(clause_table, standard_id, sample, <<>>)
    /\ UNCHANGED <<matches_of, call, folder_exists, files, db, tasks, loop,
                   response, ops, last>>

\* create_clause: the INSERT of lines 299-303 with the values of the
\* request as they come, parent_clause_id included (None is Null)
create_clause(standard_id, clause_number, parent_clause_id) ==
    /\ Len(clause_table) < MaxClauses
    /\ clause_table' =
          Append(clause_table, ClauseRow(standard_id, clause_number, parent_clause_id))
    /\ UNCHANGED <<matches_of, call, folder_exists, files, db, tasks, loop,
                   response, ops, last>>

ClauseNext ==
    \/ \E sample \in Samples : load_iso45001_sample(1, sample)
    \/ \E standard_id \in {1, 2}, clause_number \in ClauseNumbers,
          parent_clause_id \in 0..MaxClauses :
              create_clause(standard_id, clause_number, parent_clause_id)

ClauseSpec == ClauseInit /\ [][ClauseNext]_vars

(* --------------------------- specification ---------------------------- *)
\* the contents a client uploads
UploadContents == {1}

Next ==
    \/ \E path \in Paths, content \in {0} \cup Contents : WriteFile(path, content)
    \/ RemoveFolder
    \/ CreateFolder
    \/ send_response
    \/ \E t \in DOMAIN tasks : task_over(t)
    \/ Terminate
    \/ \E standard_id \in StandardIds : scan_folder(standard_id, FolderPath)
    \/ \E t \in DOMAIN tasks : perform_scan_start(t)
    \/ \E t \in DOMAIN tasks : perform_scan_match(t)
    \/ \E t \in DOMAIN tasks : perform_scan_revise(t)
    \/ \E clause_id \in ClauseIds \cup {NoSuchClause}, file_name \in FileNames,
          content \in UploadContents : upload_document(clause_id, file_name, content)
    \/ \E document_id \in 1..(Len(db.documents) + 1),
          new_clause_id \in ClauseIds \cup {NoSuchClause} :
              reassign_document(document_id, new_clause_id)

Spec == Init /\ [][Next]_vars

(* ------------------------------ claims -------------------------------- *)
\* the revision numbers of a document, in the order of insertion
RevisionNumbers(document_revisions, document_id) ==
    LET rows == SelectSeq(document_revisions, LAMBDA r : r.document_id = document_id)
    IN  [k \in 1..Len(rows) |-> rows[k].revision_number]

\* the revisions of a document that the scan with this id appended
RevisedBy(scan_id, document_id) ==
    {r \in DOMAIN db.document_revisions :
        /\ db.document_revisions[r].document_id = document_id
        /\ db.document_revisions[r].created_at = scan_id
        /\ db.document_revisions[r].notes # <<>>}

\* the clause a scan of the tree files the path under, 0 when none
BestClause(tree, path) ==
    IF tree[path] = 0 \/ matches_of[path.name, tree[path]] = <<>> THEN 0
    ELSE matches_of[path.name, tree[path]][1][1]

\* a document as it is apart from last_scanned
ApartFromLastScanned(document) == [document EXCEPT !.last_scanned = Null]

\* the latest scan repeats a completed scan of the same standard and folder,
\* and nobody else has changed a file or a document since that one started
RescanOfUnchangedFolder ==
    /\ last.repeats
    /\ last.calm
    /\ last.prior = last.tree

\* C1: a scan that repeats a completed scan of the same standard and folder,
\* with no file, clause or document changed in between, appends no revision
\* and inserts no document, records documents_added = 0 and
\* documents_updated = 0, and changes nothing of a document but last_scanned,
\* whatever the folder holds (files of one name in two subfolders included).
C1_RescanChangesNothing ==
    RescanOfUnchangedFolder =>
        /\ db.scan_history[last.scan].documents_added = 0
        /\ db.scan_history[last.scan].documents_updated = 0
        /\ \A t \in DOMAIN tasks :
              tasks[t].scan_id = last.scan =>
                  LET view == View(tasks[t])
                  IN  /\ tasks[t].documents_added = 0
                      /\ tasks[t].documents_updated = 0
                      /\ view.document_revisions = db.document_revisions
                      /\ DOMAIN view.documents = DOMAIN db.documents
                      /\ \A d \in DOMAIN db.documents :
                            ApartFromLastScanned(view.documents[d])
                                = ApartFromLastScanned(db.documents[d])

\* C2: when the content of a file changes between two scans in sequence of
\* the same folder and the file keeps its best clause, the second scan gives
\* the document found by (file_name, clause_id) exactly one new revision,
\* numbered one above the document's highest number before, leaves the hash
\* of the new content as the document's file_hash, and counts the file in
\* documents_updated.
C2_ChangedFileGetsOneRevision ==
    (/\ last.repeats
     /\ last.calm
     /\ db.scan_history[last.scan].completed_at # Null) =>
        \A path \in Paths :
            (/\ last.prior[path] # 0
             /\ last.tree[path] # 0
             /\ last.prior[path] # last.tree[path]
             /\ BestClause(last.prior, path) = BestClause(last.tree, path)) =>
                LET document_id == ExistingDoc(db.documents, path.name,
                                               BestClause(last.tree, path))
                    added == RevisedBy(last.scan, document_id)
                IN  /\ document_id # 0
                    /\ Cardinality(added) = 1
                    /\ \A r \in added :
                          db.document_revisions[r].revision_number =
                              MaxRevision(SubSeq(db.document_revisions, 1, r - 1),
                                          document_id) + 1
                    /\ db.documents[document_id].file_hash = md5(last.tree[path])
                    /\ db.scan_history[last.scan].documents_updated >= 1

\* the numbers 1..n in order
Gapless(numbers) == numbers = [k \in 1..Len(numbers) |-> k]

\* C3: whatever scans, uploads and reassignments have run, the revision
\* numbers of every document are 1, 2, ..., n in the order of insertion: no
\* duplicate, no hole, the first revision numbered 1.
C3_RevisionNumbersGapless ==
    /\ \A d \in DOMAIN db.documents :
          Gapless(RevisionNumbers(db.document_revisions, d))
    /\ \A t \in DOMAIN tasks :
          \A d \in DOMAIN View(tasks[t]).documents :
              Gapless(RevisionNumbers(View(tasks[t]).document_revisions, d))

\* a document that an upload, a scan and a reassignment have all touched
\* and that has more than one revision
C3_Witness ==
    /\ db.user_corrections # <<>>
    /\ \E d \in DOMAIN db.documents :
          /\ Len(RevisionNumbers(db.document_revisions, d)) >= 2
          /\ RevisedBy(Now, d) # {}
          /\ \E c \in DOMAIN db.user_corrections :
                db.user_corrections[c].corrected_document_id = d

SamePair(a, b) == a.standard_id = b.standard_id /\ a.folder_path = b.folder_path

\* C4: at most one scan is active for a (standard_id, folder_path) at any
\* time: a request accepted while another scan of the pair has not finished
\* waits, and two passes of the same pair never overlap.
C4_OneActiveScanPerFolder ==
    \A t, u \in DOMAIN tasks :
        (/\ t # u
         /\ SamePair(tasks[t], tasks[u])
         /\ tasks[t].pc \in RunningPcs) => tasks[u].pc \notin RunningPcs

\* a scan is in its loop while a second scan of the same pair is scheduled
C4_Witness ==
    \E t, u \in DOMAIN tasks :
        /\ t # u
        /\ SamePair(tasks[t], tasks[u])
        /\ tasks[t].pc \in RunningPcs
        /\ tasks[u].pc = "pending"

\* strictly increasing
Increasing(numbers) ==
    \A j, k \in DOMAIN numbers : j < k => numbers[j] < numbers[k]

\* C6: the revision writes of the scans are serialized: between the read of
\* MAX(revision_number) and the INSERT of the new revision no other pass
\* runs, the number read is still the document's highest when the INSERT is
\* made, and so no two revisions of one document carry the same number and
\* the numbers increase strictly.
C6_RevisionWritesSerialized ==
    /\ \A d \in DOMAIN db.documents :
          Increasing(RevisionNumbers(db.document_revisions, d))
    /\ \A t \in DOMAIN tasks :
          tasks[t].pc = "revise" =>
              /\ \A u \in DOMAIN tasks \ {t} : tasks[u].pc \notin RunningPcs
              /\ tasks[t].max_rev =
                     MaxRevision(View(tasks[t]).document_revisions,
                                 tasks[t].existing_doc)

\* two passes have each found the hash of the same document changed, and
\* the second stands between its read of MAX and its INSERT
C6_Witness ==
    \E t \in DOMAIN tasks :
        /\ tasks[t].pc = "revise"
        /\ tasks[t].max_rev >= 1
        /\ \E r \in DOMAIN db.document_revisions :
              /\ db.document_revisions[r].document_id = tasks[t].existing_doc
              /\ db.document_revisions[r].notes # <<>>
              /\ db.document_revisions[r].created_at < tasks[t].scan_id

\* C7: no scan_history row stays "in progress" for ever: a row whose scan
\* was cancelled, raised or died with the process is marked, so a row with
\* completed_at unset belongs to a scan that is still there.
C7_NoRowStaysInProgress ==
    \A k \in DOMAIN db.scan_history :
        db.scan_history[k].completed_at = Null =>
            \E t \in DOMAIN tasks : tasks[t].scan_id = k

\* C8: a scan of a folder that does not exist fails fast: the request is
\* refused before a background task is scheduled, and a scan that finds the
\* folder gone when it starts (the folder disappeared after the check of the
\* request) leaves no scan_history row.
C8_MissingFolderFailsFast ==
    [][/\ (response = NoResponse /\ response'.op = "scan" /\ ~folder_exists) =>
              (response'.status = 400 /\ tasks' = tasks /\ db' = db)
       /\ \A t \in DOMAIN tasks :
              (/\ tasks[t].pc = "pending"
               /\ t \in DOMAIN tasks'
               /\ tasks'[t].error = "ValueError") =>
                  db'.scan_history = db.scan_history]_vars

\* C9: reassign_document with a document id that does not exist, or with a
\* target clause that does not exist, answers "not found" (404) and leaves
\* the store as it was: no correction row, no field of a document changed.
C9_ReassignNotFound ==
    [][(/\ response = NoResponse
        /\ response'.op = "reassign"
        /\ \/ response'.args[1] \notin DOMAIN db.documents
           \/ response'.args[2] \notin ClauseIds) =>
            (response'.status = 404 /\ db' = db)]_vars

\* a document exists, and its reassignment to a clause that does not exist
\* has just been refused
C9_Witness ==
    /\ response.op = "reassign"
    /\ response.status = 404
    /\ response.args[1] \in DOMAIN db.documents
    /\ response.args[2] \notin ClauseIds

\* C10: reassign_document on a document that exists: when the target is the
\* document's clause nothing is written (no correction row, no change of a
\* document); otherwise, when the target clause exists, exactly one
\* correction row is appended, and the document gets the target clause,
\* match_confidence 1.0 and the reason that marks a manual assignment, no
\* other document being touched.
C10_ReassignMovesDocument ==
    [][(/\ response = NoResponse
        /\ response'.op = "reassign"
        /\ response'.args[1] \in DOMAIN db.documents) =>
            LET document_id == response'.args[1]
                new_clause_id == response'.args[2]
                n == Len(db.user_corrections)
            IN  IF db.documents[document_id].clause_id = new_clause_id
                THEN db' = db
                ELSE new_clause_id \in ClauseIds =>
                    /\ Len(db'.user_corrections) = n + 1
                    /\ SubSeq(db'.user_corrections, 1, n) = db.user_corrections
                    /\ db'.user_corrections[n + 1].corrected_document_id = document_id
                    /\ db'.user_corrections[n + 1].clause_id = new_clause_id
                    /\ db'.documents[document_id].clause_id = new_clause_id
                    /\ db'.documents[document_id].match_confidence = <<1, 1>>
                    /\ db'.documents[document_id].match_reason = << <<"manual">> >>
                    /\ \A d \in DOMAIN db.documents \ {document_id} :
                          db'.documents[d] = db.documents[d]
                    /\ DOMAIN db'.documents = DOMAIN db.documents]_vars

\* a document that a scan had filed with a score below 1.0 has just been
\* moved to another clause
C10_Witness ==
    /\ response.op = "reassign"
    /\ response.detail = "Document reassigned"
    /\ db.user_corrections # <<>>
    /\ db.documents[response.args[1]].last_scanned # Null
    /\ db.documents[response.args[1]].clause_id = response.args[2]

\* C11: whatever reassign_document answers (moved, nothing to do, refused),
\* the call leaves the revisions table as it was, row for row, and changes
\* of no document the file_hash, the file_path, the status or last_scanned.
C11_ReassignLeavesRevisions ==
    [][(response = NoResponse /\ response'.op = "reassign") =>
            /\ db'.document_revisions = db.document_revisions
            /\ DOMAIN db'.documents = DOMAIN db.documents
            /\ \A d \in DOMAIN db.documents :
                  /\ db'.documents[d].file_hash = db.documents[d].file_hash
                  /\ db'.documents[d].file_path = db.documents[d].file_path
                  /\ db'.documents[d].status = db.documents[d].status
                  /\ db'.documents[d].last_scanned = db.documents[d].last_scanned]_vars

\* a document that has revisions on record has just been moved
C11_Witness ==
    /\ response.op = "reassign"
    /\ response.detail = "Document reassigned"
    /\ \E r \in DOMAIN db.document_revisions :
          db.document_revisions[r].document_id = response.args[1]

\* C12: no step of the service deletes a document or touches a revision
\* row that exists: the document ids of the next state include those of
\* this one, and the revisions table of this state is, row for row, the
\* beginning of the revisions table of the next.
C12_RowsOnlyAdded ==
    [][/\ DOMAIN db.documents \subseteq DOMAIN db'.documents
       /\ Len(db.document_revisions) <= Len(db'.document_revisions)
       /\ SubSeq(db'.document_revisions, 1, Len(db.document_revisions))
            = db.document_revisions]_vars

\* a scan has committed a second revision of a document beside its first,
\* and there are two documents on record
C12_Witness ==
    /\ Len(db.documents) >= 2
    /\ \E r \in DOMAIN db.document_revisions :
          /\ db.document_revisions[r].revision_number >= 2
          /\ \E q \in 1..(r - 1) :
                db.document_revisions[q].document_id
                    = db.document_revisions[r].document_id

\* C13: a file whose bytes are those the stored hash of its document was
\* computed from compares equal and takes the unchanged branch, whether a
\* scan or upload_document stored the document: a scan never stands at the
\* changed branch (about to write a revision) for a document whose stored
\* hash is the hash of the very content the scan has just read.
C13_SameBytesTakeUnchangedBranch ==
    \A t \in DOMAIN tasks :
        tasks[t].pc = "revise" =>
            View(tasks[t]).documents[tasks[t].existing_doc].file_hash[2]
                # tasks[t].file_hash[2]

\* the documents that differ between two states of the documents table
DocumentsWritten(before, after) ==
    {d \in DOMAIN after : d \notin DOMAIN before \/ after[d] # before[d]}

\* the clause is one of those at or above the threshold for this file with
\* this content, and none of them scores higher
HighestScoring(clause_id, name, content) ==
    LET scored == Range(matches_of[name, content])
    IN  \E m \in scored :
            /\ m[1] = clause_id
            /\ ScoreGeq(m[2], MatchThreshold)
            /\ \A o \in scored : ScoreGeq(m[2], o[2])

\* C14: with max_matches_per_doc = 1, the work of perform_scan on one
\* scanned file (the iteration for its entry of scan_results.matches) writes
\* at most one document, created or updated, and the clause of that
\* document is one with the highest composite score among the clauses at
\* or above the threshold for the file as it was scanned.
C14_OneBestClausePerFile ==
    [][\A t \in DOMAIN tasks :
          (/\ tasks[t].pc \in RunningPcs
           /\ t \in DOMAIN tasks'
           /\ tasks'[t] # tasks[t]
           /\ tasks'[t].pc # "raised") =>
              LET match == tasks[t].scan_results.matches[tasks[t].i]
                  written == DocumentsWritten(View(tasks[t]).documents,
                                 ViewOn(db', tasks'[t]).documents)
              IN  /\ Cardinality(written) <= 1
                  /\ Len(match.clause_matches) <= 1
                  /\ \A d \in written :
                        HighestScoring(ViewOn(db', tasks'[t]).documents[d].clause_id,
                                       match.file_name,
                                       last.tree[match.file_path])]_vars

\* a completed scan has stored a document for a file that two clauses
\* matched at or above the threshold, with different scores
C14_Witness ==
    /\ last.scan # 0
    /\ db.scan_history[last.scan].completed_at # Null
    /\ db.scan_history[last.scan].documents_added >= 1
    /\ \E path \in Paths :
          /\ last.tree[path] # 0
          /\ LET scored == matches_of[path.name, last.tree[path]]
             IN  /\ Len(scored) >= 2
                 /\ ~ScoreGeq(scored[2][2], scored[1][2])
                 /\ \E d \in DOMAIN db.documents :
                       /\ db.documents[d].file_path = path
                       /\ db.documents[d].clause_id = scored[1][1]

\* C15: scanning runs off the request-serving path: whenever a perform_scan
\* is under way (started, not finished) and no answer is waiting to be
\* sent, the service can take and serve another request, here a
\* reassign_document.
C15_RequestsServedDuringScan ==
    ((\E t \in DOMAIN tasks : tasks[t].pc \in RunningPcs) /\ Settled) =>
        ENABLED (\E document_id \in 1..MaxOps, new_clause_id \in ClauseIds :
                    reassign_document(document_id, new_clause_id))

(* ------------- claims about the scanner's functions (ScorerSpec) ------ *)
\* what a returned call of the function gave, told apart from no such call
ReturnedFrom(fn) == call.fn = fn /\ call.returned

\* a fraction equals, is at most, another
ScoreEq(a, b) == a[1] * b[2] = b[1] * a[2]

\* 0.40 * number + 0.30 * title + 0.30 * keywords of three sub-scores, the
\* first being 0 or 1
WeightedSum(number, title, keywords) ==
    <<4 * number * title[2] * keywords[2] + 3 * title[1] * keywords[2]
        + 3 * keywords[1] * title[2],
      10 * title[2] * keywords[2]>>

\* the three sub-scores of the arguments of a call of calculate_match_score
SubScores(args) ==
    [number |-> IF NumberInFilename(args[1], args[3]) THEN 1 ELSE 0,
     title |-> fuzzy_match_score(args[1], args[4]),
     keywords |-> IF args[2] # <<>> /\ args[5] # <<>>
                  THEN keyword_overlap_score(extract_keywords(args[2], 30),
                                             extract_keywords(args[5], 30))
                  ELSE <<0, 1>>]

\* C16: whatever its arguments, empty ones included, calculate_match_score
\* returns a value from 0 to 1: the sum of its three weighted sub-scores
\* when that is at most 1, and 1 otherwise.
C16_ScoreBetweenZeroAndOne ==
    ReturnedFrom("calculate_match_score") =>
        LET sub == SubScores(call.args)
            sum == WeightedSum(sub.number, sub.title, sub.keywords)
        IN  /\ call.result[2] > 0
            /\ 0 <= call.result[1]
            /\ call.result[1] <= call.result[2]
            /\ IF sum[1] > sum[2] THEN ScoreEq(call.result, <<1, 1>>)
               ELSE ScoreEq(call.result, sum)

\* a call where the three sub-scores are all 1 has returned 1
C16_Witness ==
    /\ ReturnedFrom("calculate_match_score")
    /\ NumberInFilename(call.args[1], call.args[3])
    /\ call.args[1] # <<>>
    /\ call.args[1] = call.args[4]
    /\ call.args[2] = call.args[5] /\ call.args[2] # <<>>
    /\ ScoreEq(call.result, <<1, 1>>)

\* C17: fuzzy_match_score of a non-empty string and itself is 1, of a
\* non-empty string and the empty string is 0, and of the empty string and
\* the empty string is 0.
C17_SimilarityOfEqualAndOfEmpty ==
    ReturnedFrom("fuzzy_match_score") =>
        LET text1 == call.args[1]
            text2 == call.args[2]
        IN  /\ (text1 # <<>> /\ text1 = text2) => ScoreEq(call.result, <<1, 1>>)
            /\ (text1 # <<>> /\ text2 = <<>>) => ScoreEq(call.result, <<0, 1>>)
            /\ (text1 = <<>> /\ text2 = <<>>) => ScoreEq(call.result, <<0, 1>>)

\* the clause number, every '.', '-' and '_' removed, is a substring of the
\* file name with every '.', '-' and '_' removed
StrippedNumberInStrippedName(doc_filename, clause_number) ==
    Contains(StripSeparators(doc_filename), StripSeparators(clause_number))

\* C18: the clause number counts for exactly 0.40 of the score when, every
\* '.', '-' and '_' removed from both, it is a substring of the file name,
\* and for exactly 0 otherwise; so when it is contained the score is at
\* least 0.40, and match_document_to_clauses keeps the clause at the
\* default threshold 0.3.
C18_StrippedNumberCountsForty ==
    /\ ReturnedFrom("calculate_match_score") =>
          LET sub == SubScores(call.args)
              contained == StrippedNumberInStrippedName(call.args[1], call.args[3])
          IN  /\ ScoreEq(call.result,
                         WeightedSum(IF contained THEN 1 ELSE 0, sub.title, sub.keywords))
              /\ contained => ScoreGeq(call.result, <<4, 10>>)
    /\ (/\ ReturnedFrom("match_document_to_clauses")
        /\ call.args[4] = MatchThreshold
        /\ StrippedNumberInStrippedName(call.args[1].name.stem,
                                        call.args[3][1].clause_number)) =>
          /\ Len(call.result) = 1
          /\ call.result[1][1] = call.args[3][1].id
          /\ ScoreGeq(call.result[1][2], <<4, 10>>)

\* file name and clause share nothing: the stripped number is not in the
\* stripped name, name and title have no character in common, and text and
\* description have no keyword in common
NothingShared(doc_filename, doc_text, clause_number, clause_title, clause_description) ==
    /\ ~StrippedNumberInStrippedName(doc_filename, clause_number)
    /\ MatchedLength(lower(doc_filename), lower(clause_title)) = 0
    /\ Range(extract_keywords(doc_text, 30))
            \cap Range(extract_keywords(clause_description, 30)) = {}

\* C19: when the stripped clause number is not in the stripped file name,
\* the file name has no overlap with the title, and text and description
\* share no keyword, calculate_match_score returns 0, and
\* match_document_to_clauses leaves the clause out whatever the threshold
\* it was passed.
C19_NothingSharedScoresZero ==
    /\ (/\ ReturnedFrom("calculate_match_score")
        /\ NothingShared(call.args[1], call.args[2], call.args[3],
                         call.args[4], call.args[5])) =>
          ScoreEq(call.result, <<0, 1>>)
    /\ (/\ ReturnedFrom("match_document_to_clauses")
        /\ LET extracted == extract_text_from_file(call.args[1], call.args[2])
               clause == call.args[3][1]
           IN  NothingShared(extracted[2], extracted[1], clause.clause_number,
                             clause.title, clause.description)) =>
          call.result = <<>>

\* C20: keyword_overlap_score of a non-empty keyword set and itself is 1;
\* it is 0 when a set is empty, both empty included; and otherwise it is
\* the size of the intersection over the size of the union.
C20_KeywordOverlapIsJaccard ==
    ReturnedFrom("keyword_overlap_score") =>
        LET A == Range(call.args[1])
            B == Range(call.args[2])
        IN  /\ (A # {} /\ A = B) => ScoreEq(call.result, <<1, 1>>)
            /\ (A = {} \/ B = {}) => ScoreEq(call.result, <<0, 1>>)
            /\ (A # {} /\ B # {}) =>
                  /\ call.result[2] > 0
                  /\ ScoreEq(call.result,
                             <<Cardinality(A \cap B), Cardinality(A \cup B)>>)

\* a call on two different non-empty sets that share a keyword has returned
C20_Witness ==
    /\ ReturnedFrom("keyword_overlap_score")
    /\ Range(call.args[1]) # Range(call.args[2])
    /\ Range(call.args[1]) \cap Range(call.args[2]) # {}
    /\ ScoreEq(call.result, <<1, 2>>)

\* the supported extensions in small letters and in capitals
AnyCaseExtensions == supported_extensions \cup {".TXT"}

\* the file paths of a list of scan_folder, in order
FilePaths(list) == [k \in DOMAIN list |-> list[k].file_path]

\* C21: scan_folder counts in documents_scanned the files whose extension
\* is a supported one in whatever case, matched or not, and leaves the
\* others out of every list; documents_matched counts the counted files
\* with a match at or above the threshold; every counted file is once in
\* `matches` or once in `unmatched_documents`, never in both; a tree without
\* a supported file gives 0, 0 and no match.
C21_ScanFolderAccounting ==
    ReturnedFrom("scan_folder") =>
        LET tree == call.args[1]
            results == call.result
            counted == {p \in ScanPaths :
                           tree[p] # 0 /\ p.name.ext \in AnyCaseExtensions}
            matched == {p \in counted : matches_of[p.name, tree[p]] # <<>>}
            in_matches == FilePaths(results.matches)
            in_unmatched == FilePaths(results.unmatched_documents)
        IN  /\ results.documents_scanned = Cardinality(counted)
            /\ results.documents_matched = Cardinality(matched)
            /\ Range(in_matches) = matched
            /\ Len(in_matches) = Cardinality(matched)
            /\ Range(in_unmatched) = counted \ matched
            /\ Len(in_unmatched) = Cardinality(counted \ matched)
            /\ counted = {} =>
                  /\ results.documents_scanned = 0
                  /\ results.documents_matched = 0
                  /\ results.matches = <<>>

\* scan_folder has returned on a tree with a file of another type, a
\* matched file, and an unmatched file whose extension is in capitals
C21_Witness ==
    /\ ReturnedFrom("scan_folder")
    /\ \E p \in ScanPaths :
          call.args[1][p] # 0 /\ p.name.ext \notin AnyCaseExtensions
    /\ call.result.matches # <<>>
    /\ \E k \in DOMAIN call.result.unmatched_documents :
          call.result.unmatched_documents[k].file_name.ext = ".TXT"

(* ---------------- claims about the catalogue (ClauseSpec) ------------- *)
\* the number p, followed by a '.', begins the number c
StrictDotPrefix(p, c) ==
    /\ Len(p) + 1 < Len(c)
    /\ SubSeq(c, 1, Len(p) + 1) = p \o <<".">>

\* C22: whatever clauses create_clause and the setup loader have created,
\* a clause that has a parent has one that is a clause of the same
\* standard and whose number is a strict dot-prefix of its own.
C22_ParentIsDotPrefixInStandard ==
    \A k \in DOMAIN clause_table :
        clause_table[k].parent_clause_id # Null =>
            /\ clause_table[k].parent_clause_id \in DOMAIN clause_table
            /\ LET parent == clause_table[clause_table[k].parent_clause_id]
               IN  /\ parent.standard_id = clause_table[k].standard_id
                   /\ StrictDotPrefix(parent.clause_number,
                                      clause_table[k].clause_number)

\* the score of a clause for a file, as calculate_match_score gives it
ScoreOf(file_path, content, clause) ==
    LET extracted == extract_text_from_file(file_path, content)
    IN  calculate_match_score(extracted[2], extracted[1], clause.clause_number,
                              clause.title, clause.description)

\* C23: match_document_to_clauses returns the clauses whose score is at
\* or above the threshold, those whose score equals it included, and no
\* other, each once and with its score; a higher score comes first, and
\* clauses of equal score come in the order of the clause list.  scan_folder
\* keeps the first max_matches_per_doc entries of that list.
C23_MatchesFilteredAndOrdered ==
    /\ ReturnedFrom("match_document_to_clauses") =>
          LET file_path == call.args[1]
              content == call.args[2]
              clauses == call.args[3]
              threshold == call.args[4]
              kept == {k \in DOMAIN clauses :
                          ScoreGeq(ScoreOf(file_path, content, clauses[k]), threshold)}
              matches == call.result
          IN  /\ Len(matches) = Cardinality(kept)
              /\ {matches[i][1] : i \in DOMAIN matches} = {clauses[k].id : k \in kept}
              /\ \A i \in DOMAIN matches :
                    matches[i][2] = ScoreOf(file_path, content, clauses[matches[i][1]])
              /\ \A i, j \in DOMAIN matches :
                    i < j =>
                        /\ ScoreGeq(matches[i][2], matches[j][2])
                        /\ ScoreEq(matches[i][2], matches[j][2]) =>
                              matches[i][1] < matches[j][1]
    /\ ReturnedFrom("scan_folder") =>
          \A k \in DOMAIN call.result.matches :
              LET match == call.result.matches[k]
                  all == matches_of[match.file_name, call.args[1][match.file_path]]
                  n == IF Len(all) < call.args[3] THEN Len(all) ELSE call.args[3]
              IN  /\ Len(match.clause_matches) = n
                  /\ \A i \in 1..n : match.clause_matches[i] = all[i]

\* of three clauses, two of the same score were kept, in their order, the
\* last of them at the threshold itself, and one was left out
C23_Witness ==
    /\ ReturnedFrom("match_document_to_clauses")
    /\ Len(call.args[3]) = 3
    /\ Len(call.result) = 2
    /\ ScoreEq(call.result[1][2], call.result[2][2])
    /\ ScoreEq(call.result[2][2], call.args[4])
    /\ call.args[4] = MatchThreshold

\* a letter in either case, or a digit
IsTokenChar(ch) == ch \in AlnumChars \cup {"R", "P"}

\* the tokens of a text, each as <<first, last>>: the longest runs of
\* letters and digits
TokenRuns(text) ==
    {run \in (1..Len(text)) \X (1..Len(text)) :
        /\ run[1] <= run[2]
        /\ \A k \in run[1]..run[2] : IsTokenChar(text[k])
        /\ run[1] = 1 \/ ~IsTokenChar(text[run[1] - 1])
        /\ run[2] = Len(text) \/ ~IsTokenChar(text[run[2] + 1])}

RECURSIVE SmallLetters(_)
\* the characters in small letters, as one string
SmallLetters(chars) ==
    IF chars = <<>> THEN ""
    ELSE (IF Head(chars) = "R" THEN "r" ELSE IF Head(chars) = "P" THEN "p"
          ELSE Head(chars)) \o SmallLetters(Tail(chars))

TokenAt(text, run) == SmallLetters(SubSeq(text, run[1], run[2]))

\* how often a token occurs in a text, and where it occurs first
Frequency(text, token) ==
    Cardinality({run \in TokenRuns(text) : TokenAt(text, run) = token})
FirstAt(text, token) ==
    LET starts == {run[1] : run \in {r \in TokenRuns(text) : TokenAt(text, r) = token}}
    IN  CHOOSE i \in starts : \A j \in starts : i <= j

\* token a comes before token b: it is more frequent, or as frequent and
\* first met earlier
RanksBefore(text, a, b) ==
    \/ Frequency(text, a) > Frequency(text, b)
    \/ /\ Frequency(text, a) = Frequency(text, b)
       /\ FirstAt(text, a) < FirstAt(text, b)

\* C26: extract_keywords(text, top_n) returns at most top_n tokens, no
\* token twice, each a run of letters and digits of the text in small
\* letters, longer than 2 characters and no stop word; the more frequent
\* first, and of two as frequent the one first met in the text; no token
\* left out comes before one returned unless top_n are returned; and the
\* empty text gives the empty list.
C26_KeywordsByFrequency ==
    ReturnedFrom("extract_keywords") =>
        LET text == call.args[1]
            top_n == call.args[2]
            keywords == call.result
            eligible == {token \in {TokenAt(text, run) : run \in TokenRuns(text)} :
                            Len(token) > 2 /\ token \notin stop_words}
        IN  /\ Len(keywords) <= top_n
            /\ \A i, j \in DOMAIN keywords : i # j => keywords[i] # keywords[j]
            /\ Range(keywords) \subseteq eligible
            /\ \A i, j \in DOMAIN keywords :
                  i < j => RanksBefore(text, keywords[i], keywords[j])
            /\ \A token \in eligible \ Range(keywords) :
                  /\ Len(keywords) = top_n
                  /\ \A i \in DOMAIN keywords : RanksBefore(text, keywords[i], token)
            /\ text = <<>> => keywords = <<>>

\* of a text with a capital, a comma and two different keywords, the
\* second of them twice, the more frequent one alone was returned
C26_Witness ==
    /\ ReturnedFrom("extract_keywords")
    /\ call.args[1] = Joined(<< <<"a", "u", "d", "i", "t">>, <<"R", "i", "s", "k">>,
                                <<"r", "i", "s", "k", ",">> >>)
    /\ call.args[2] = 1
    /\ call.result = <<"risk">>

(* --------------------- claims about the service (Spec) ---------------- *)
\* C24: the step that completes a perform_scan leaves the one
\* scan_history row of the run (no step of a started run adds a row) with
\* documents_added the number of documents the run inserted and
\* documents_updated the number of revisions it appended, so that
\* documents_added + documents_updated <= documents_matched <=
\* documents_found, and leaves exactly one monitored_folders record of the
\* folder, with the standard of the run and the time of its completion.
C24_CompletedScanIsAccounted ==
    [][\A t \in DOMAIN tasks :
          /\ (tasks[t].pc \in RunningPcs /\ t \in DOMAIN tasks') =>
                Len(db'.scan_history) = Len(db.scan_history)
          /\ (/\ t \in DOMAIN tasks'
              /\ tasks[t].pc \in RunningPcs \cup {"pending"}
              /\ tasks'[t].pc = "done") =>
                LET run == db'.scan_history[tasks'[t].scan_id]
                    folders == {f \in DOMAIN db'.monitored_folders :
                                   db'.monitored_folders[f].folder_path
                                       = tasks'[t].folder_path}
                IN  /\ Len(db'.scan_history)
                          = Len(db.scan_history)
                            + (IF tasks[t].pc = "pending" THEN 1 ELSE 0)
                    /\ tasks'[t].scan_id = Len(db'.scan_history)
                    /\ run.completed_at # Null
                    /\ run.documents_added = Len(db'.documents) - Len(db.documents)
                    /\ run.documents_updated
                          = Len(db'.document_revisions) - Len(db.document_revisions)
                    /\ run.documents_added + run.documents_updated
                          <= run.documents_matched
                    /\ run.documents_matched <= run.documents_found
                    /\ Cardinality(folders) = 1
                    /\ \A f \in folders :
                          /\ db'.monitored_folders[f].standard_id = tasks'[t].standard_id
                          /\ db'.monitored_folders[f].last_scan = run.completed_at]_vars

\* the second scan of the folder is complete, and it has inserted a
\* document and appended a revision
C24_Witness ==
    /\ Len(db.scan_history) = 2
    /\ db.scan_history[2].completed_at # Null
    /\ db.scan_history[2].documents_added >= 1
    /\ db.scan_history[2].documents_updated >= 1
    /\ Len(db.monitored_folders) = 1

\* C25: when the iteration of perform_scan for a file finds the document
\* of (file_name, clause_id) with the hash of the file, it changes
\* last_scanned of that document and nothing else: no other column of it,
\* no other document, no revision row, and neither of the two counters,
\* whatever the path of the file and its score.
C25_UnchangedBranchTouchesLastScanned ==
    [][\A t \in DOMAIN tasks :
          (/\ tasks[t].pc = "match"
           /\ t \in DOMAIN tasks'
           /\ tasks'[t] # tasks[t]) =>
              LET match == tasks[t].scan_results.matches[tasks[t].i]
                  before == View(tasks[t])
                  after == ViewOn(db', tasks'[t])
                  existing_doc == ExistingDoc(before.documents, match.file_name,
                                              match.clause_matches[1][1])
              IN  (/\ files[match.file_path] # 0
                   /\ existing_doc # 0
                   /\ before.documents[existing_doc].file_hash
                         = md5(files[match.file_path])) =>
                      /\ DOMAIN after.documents = DOMAIN before.documents
                      /\ \A d \in DOMAIN before.documents :
                            after.documents[d] =
                                IF d = existing_doc
                                THEN [before.documents[d] EXCEPT
                                         !.last_scanned = after.documents[d].last_scanned]
                                ELSE before.documents[d]
                      /\ after.document_revisions = before.document_revisions
                      /\ tasks'[t].documents_added = tasks[t].documents_added
                      /\ tasks'[t].documents_updated = tasks[t].documents_updated]_vars

\* a completed scan has found the document of the first of two files of
\* the same name and content when it came to the second, in another folder
C25_Witness ==
    /\ last.scan # 0
    /\ db.scan_history[last.scan].completed_at # Null
    /\ db.scan_history[last.scan].documents_found = 2
    /\ db.scan_history[last.scan].documents_added = 1
    /\ db.scan_history[last.scan].documents_updated = 0
    /\ Len(db.documents) = 1
    /\ \E p, q \in Paths :
          /\ p # q
          /\ p.name = q.name
          /\ last.tree[p] # 0
          /\ last.tree[p] = last.tree[q]
          /\ db.documents[1].file_path = p

\* C27: whatever scans, uploads and reassignments have run, one after the
\* other, no two documents have the same file_name and the same clause_id.
C27_IdentityIsUnique ==
    \A d, e \in DOMAIN db.documents :
        (/\ db.documents[d].file_name = db.documents[e].file_name
         /\ db.documents[d].clause_id = db.documents[e].clause_id) => d = e

\* C28: a document that a scan created and reassign_document has moved
\* stays the only document of its file when the folder is scanned again
\* with the file as it was: no other document has its file_path and the
\* hash of the same content, and it keeps the clause it was moved to.
C28_ReassignmentSurvivesScan ==
    \A d \in DOMAIN db.documents :
        (/\ db.documents[d].last_scanned # Null
         /\ \E c \in DOMAIN db.user_corrections :
               db.user_corrections[c].corrected_document_id = d) =>
            \A e \in DOMAIN db.documents \ {d} :
                ~(/\ db.documents[e].file_path = db.documents[d].file_path
                  /\ db.documents[e].file_hash = db.documents[d].file_hash)

\* C29: a perform_scan that starts on a store without documents, in a tree
\* that holds a file name twice, in two subfolders, with different contents
\* and the same best clause, and that nobody changes while the scan runs,
\* completes with exactly one document of that file name, under that
\* clause: the second file in walk order is taken as a change of the first,
\* so the document has the path and hash of the second, one revision of
\* number 1 with that path and hash, and the run records documents_updated
\* = 1 and counts the name once in documents_added.
C29_SameNameIsOneDocument ==
    [][\A t \in DOMAIN tasks : \A j, k \in DOMAIN WalkOrder :
          (/\ t \in DOMAIN tasks'
           /\ tasks[t].pc \in RunningPcs \cup {"pending"}
           /\ tasks'[t].pc = "done"
           /\ db.documents = <<>>
           /\ last'.scan = tasks'[t].scan_id
           /\ last'.calm
           /\ j < k
           /\ WalkOrder[j].name = WalkOrder[k].name
           /\ last'.tree[WalkOrder[j]] # 0
           /\ last'.tree[WalkOrder[k]] # 0
           /\ last'.tree[WalkOrder[j]] # last'.tree[WalkOrder[k]]
           /\ BestClause(last'.tree, WalkOrder[j]) # 0
           /\ BestClause(last'.tree, WalkOrder[j])
                 = BestClause(last'.tree, WalkOrder[k])) =>
              LET first == WalkOrder[j]
                  second == WalkOrder[k]
                  run == db'.scan_history[tasks'[t].scan_id]
                  named == {d \in DOMAIN db'.documents :
                               db'.documents[d].file_name = first.name}
                  others == DOMAIN db'.documents \ named
              IN  /\ Cardinality(named) = 1
                  /\ \A d \in named :
                        /\ db'.documents[d].clause_id
                              = BestClause(last'.tree, first)
                        /\ db'.documents[d].file_path = second
                        /\ db'.documents[d].file_hash = md5(last'.tree[second])
                        /\ Len(db'.document_revisions) = 1
                        /\ db'.document_revisions[1].document_id = d
                        /\ db'.document_revisions[1].revision_number = 1
                        /\ db'.document_revisions[1].file_path = second
                        /\ db'.document_revisions[1].file_hash
                              = md5(last'.tree[second])
                  /\ run.documents_added = 1 + Cardinality(others)
                  /\ run.documents_updated = 1]_vars

\* the first scan is complete on a tree with the same name under a/ and b/
\* with different contents: one document, one revision, one added, one
\* updated
C29_Witness ==
    /\ Len(db.scan_history) = 1
    /\ db.scan_history[1].completed_at # Null
    /\ last.calm
    /\ \E p, q \in Paths :
          /\ p # q
          /\ p.name = q.name
          /\ last.tree[p] # 0
          /\ last.tree[q] # 0
          /\ last.tree[p] # last.tree[q]
    /\ Len(db.documents) = 1
    /\ Len(db.document_revisions) = 1
    /\ db.scan_history[1].documents_added = 1
    /\ db.scan_history[1].documents_updated = 1

\* what a scan run leaves in the store of its own: the documents it stamped
\* with its time and the revisions it appended
PersistedBy(scan_id) ==
    {<<"documents", d>> : d \in {e \in DOMAIN db.documents :
                                    db.documents[e].last_scanned = scan_id}}
    \cup {<<"document_revisions", r>> : r \in {q \in DOMAIN db.document_revisions :
              /\ db.document_revisions[q].created_at = scan_id
              /\ db.document_revisions[q].notes # <<>>}}

\* C30: the documents a perform_scan run inserts or updates and the
\* revisions it appends reach the store in the one commit that sets
\* completed_at of its scan_history row: while that row has completed_at
\* unset, nothing of the run is in the store.  The step on which an
\* exception leaves the run, after it has started, changes no table, and
\* the row of the run is there with completed_at unset.
C30_RunCommitsOnceAtTheEnd ==
    /\ [](\A s \in DOMAIN db.scan_history :
             db.scan_history[s].completed_at = Null => PersistedBy(s) = {})
    /\ [][\A t \in DOMAIN tasks :
             (/\ t \in DOMAIN tasks'
              /\ tasks[t].pc \in RunningPcs
              /\ tasks'[t].pc = "raised") =>
                 /\ db' = db
                 /\ tasks'[t].tx = NoTx
                 /\ tasks[t].scan_id \in DOMAIN db'.scan_history
                 /\ db'.scan_history[tasks[t].scan_id].completed_at = Null]_vars

\* a scan has inserted the document of the first file of the walk, a later
\* file was removed before the loop came to it, and hashing it has raised:
\* the store has the row of the run, not completed, and no document
C30_Witness ==
    /\ ops = 2
    /\ \E t \in DOMAIN tasks :
          /\ tasks[t].pc = "raised"
          /\ tasks[t].error = "FileNotFoundError"
          /\ tasks[t].scan_id = last.scan
    /\ last.scan = 1
    /\ db.scan_history[1].completed_at = Null
    /\ last.tree[WalkOrder[1]] # 0
    /\ files[WalkOrder[1]] = last.tree[WalkOrder[1]]
    /\ \E k \in 2..Len(WalkOrder) :
          /\ last.tree[WalkOrder[k]] # 0
          /\ files[WalkOrder[k]] = 0
          /\ \A j \in 2..Len(WalkOrder) \ {k} : files[WalkOrder[j]] = last.tree[WalkOrder[j]]
    /\ db.documents = <<>>
    /\ db.document_revisions = <<>>

====
